---- MODULE Spec2Model ----
(***************************************************************************)
(* Model of the ruma wire-format core:                                     *)
(*   - the ErrorKind codec of ruma-client-api/src/error/kind_serde.rs      *)
(*     (ErrorKindVisitor::visit_map, impl From<T> for ErrCode,             *)
(*      impl Serialize for ErrorKind);                                     *)
(*   - the packed KeyId and the signature map (add_signature) of           *)
(*     ruma-identifiers/src/signatures.rs;                                 *)
(*   - Response of src/api/response.rs (From<ExprStruct>, ToTokens).       *)
(***************************************************************************)
EXTENDS Integers, Sequences, FiniteSets, TLC

VARIABLES
    pc,             \* position: "ser" | "loop" | "done" (codec);
                    \*           "key" | "built" | "read" (KeyId); "sig";
                    \*           "from" | "panic" | "response" | "tokens"
    kind,           \* the ErrorKind value handed to Serialize (<<>> when none)
    ser,            \* result of Serialize: <<>> before it ran
    input,          \* the key/value entries the MapAccess was created with
    map,            \* entries MapAccess has not yielded yet
    errcode,        \* visit_map's accumulator slots (Option = <<>> or <<v>>)
    soft_logout,
    retry_after_ms,
    room_version,
    admin_contact,
    extra,          \* BTreeMap<String, JsonValue> as a set of <<key, value>>
    result,         \* visit_map's return value (<<>> while running)
    key_identifier, \* KeyId construction: the request
    keyid,          \* KeyId construction: the outcome (<<>> while pending)
    parts,          \* what algorithm() and key_name() returned (<<>> before)
    signatures,     \* Signatures<K>: the set of <<entity, EntitySignatures>>
    calls,          \* the add_signature calls made so far, oldest first
    expr,           \* Response::from: the struct fields not yet converted
    has_newtype_body, \* Response::from: the flag of the closure
    fields,         \* Response::from: the ResponseFields collected so far
    response        \* Response::from: the outcome (<<>> while running)

vars == <<pc, kind, ser, input, map, errcode, soft_logout, retry_after_ms,
          room_version, admin_contact, extra, result, key_identifier, keyid,
          parts, signatures, calls, expr, has_newtype_body, fields, response>>

decVars == <<input, map, errcode, soft_logout, retry_after_ms, room_version,
             admin_contact, extra, result>>

keyVars == <<key_identifier, keyid, parts>>

sigVars == <<signatures, calls>>

respVars == <<expr, has_newtype_body, fields, response>>

codecVars == <<kind, ser, decVars>>

(***************************************************************************)
(* Bounds of the model.                                                    *)
(***************************************************************************)
\* the longest key sequence a MapAccess yields
MaxKeys == 3

(***************************************************************************)
(* Option<T>: None is the empty sequence, Some(v) the singleton.           *)
(***************************************************************************)
None == <<>>

Some(v) == <<v>>

IsSome(o) == o # <<>>

Unwrap(o) == o[1]

(***************************************************************************)
(* Naturals of full width (u64, u128 and js_int::UInt payloads exceed      *)
(* 32-bit integers): big-endian limbs in base 1000, without leading zero   *)
(* limbs; zero is the empty sequence.  A division by 1000 drops the last   *)
(* limb.                                                                   *)
(***************************************************************************)
RECURSIVE BigNorm(_)
BigNorm(a) == IF a # <<>> /\ Head(a) = 0 THEN BigNorm(Tail(a)) ELSE a

BigLess(a, b) ==
    \/ Len(a) < Len(b)
    \/ /\ Len(a) = Len(b)
       /\ \E i \in 1..Len(a) : a[i] < b[i] /\ \A j \in 1..(i - 1) : a[j] = b[j]

BigLeq(a, b) == a = b \/ BigLess(a, b)

\* js_int::MAX_SAFE_UINT = 2^53 - 1 = 9 007 199 254 740 991
MAX_SAFE_UINT == <<9, 7, 199, 254, 740, 991>>

\* 2^53
TwoPow53 == <<9, 7, 199, 254, 740, 992>>

(***************************************************************************)
(* serde_json::Value.  t is the JSON type; integers are PosInt(u64) /      *)
(* NegInt(i64) with the magnitude in n, a non-integer number is "float"    *)
(* with its text in s.                                                     *)
(***************************************************************************)
JNull == [t |-> "null", s |-> "", n |-> <<>>]

JBool(b) == [t |-> "bool", s |-> IF b THEN "true" ELSE "false", n |-> <<>>]

JStr(str) == [t |-> "string", s |-> str, n |-> <<>>]

JPosInt(limbs) == [t |-> "posint", s |-> "", n |-> limbs]

JNegInt(limbs) == [t |-> "negint", s |-> "", n |-> limbs]

JFloat(txt) == [t |-> "float", s |-> txt, n |-> <<>>]

(***************************************************************************)
(* std::time::Duration: whole seconds (u64) and sub-second nanoseconds.    *)
(***************************************************************************)
NanosPerMilli == 1000000

MillisPerSec == 1000

\* Duration::from_millis(ms)
DurationFromMillis(ms) ==
    IF ms = <<>>
    THEN [secs |-> <<>>, nanos |-> 0]
    ELSE [secs |-> SubSeq(ms, 1, Len(ms) - 1),
          nanos |-> (ms[Len(ms)] % MillisPerSec) * NanosPerMilli]

\* Duration::as_millis(): secs * 1000 + nanos / 1_000_000 (u128, cannot overflow)
DurationAsMillis(d) == BigNorm(d.secs \o <<d.nanos \div NanosPerMilli>>)

(***************************************************************************)
(* enum ErrCode and impl From<T> for ErrCode: the discriminant table, in   *)
(* the order of the match arms.                                            *)
(***************************************************************************)
ErrCodeTable ==
    << <<"M_FORBIDDEN", "Forbidden">>,
       <<"M_UNKNOWN_TOKEN", "UnknownToken">>,
       <<"M_MISSING_TOKEN", "MissingToken">>,
       <<"M_BAD_JSON", "BadJson">>,
       <<"M_NOT_JSON", "NotJson">>,
       <<"M_NOT_FOUND", "NotFound">>,
       <<"M_LIMIT_EXCEEDED", "LimitExceeded">>,
       <<"M_UNKNOWN", "Unknown">>,
       <<"M_UNRECOGNIZED", "Unrecognized">>,
       <<"M_UNAUTHORIZED", "Unauthorized">>,
       <<"M_USER_DEACTIVATED", "UserDeactivated">>,
       <<"M_USER_IN_USE", "UserInUse">>,
       <<"M_INVALID_USERNAME", "InvalidUsername">>,
       <<"M_ROOM_IN_USE", "RoomInUse">>,
       <<"M_INVALID_ROOM_STATE", "InvalidRoomState">>,
       <<"M_THREEPID_IN_USE", "ThreepidInUse">>,
       <<"M_THREEPID_NOT_FOUND", "ThreepidNotFound">>,
       <<"M_THREEPID_AUTH_FAILED", "ThreepidAuthFailed">>,
       <<"M_THREEPID_DENIED", "ThreepidDenied">>,
       <<"M_SERVER_NOT_TRUSTED", "ServerNotTrusted">>,
       <<"M_UNSUPPORTED_ROOM_VERSION", "UnsupportedRoomVersion">>,
       <<"M_INCOMPATIBLE_ROOM_VERSION", "IncompatibleRoomVersion">>,
       <<"M_BAD_STATE", "BadState">>,
       <<"M_GUEST_ACCESS_FORBIDDEN", "GuestAccessForbidden">>,
       <<"M_CAPTCHA_NEEDED", "CaptchaNeeded">>,
       <<"M_CAPTCHA_INVALID", "CaptchaInvalid">>,
       <<"M_MISSING_PARAM", "MissingParam">>,
       <<"M_INVALID_PARAM", "InvalidParam">>,
       <<"M_TOO_LARGE", "TooLarge">>,
       <<"M_EXCLUSIVE", "Exclusive">>,
       <<"M_RESOURCE_LIMIT_EXCEEDED", "ResourceLimitExceeded">>,
       <<"M_CANNOT_LEAVE_SERVER_NOTICE_ROOM", "CannotLeaveServerNoticeRoom">> >>

\* the wire strings of the table
TableStrings == {ErrCodeTable[i][1] : i \in 1..Len(ErrCodeTable)}

\* the variants of enum ErrCode other than _Custom
KnownVariants == {ErrCodeTable[i][2] : i \in 1..Len(ErrCodeTable)}

\* a value of enum ErrCode; custom is the payload of _Custom(String)
ErrCode(variant, custom) == [variant |-> variant, custom |-> custom]

\* a match on a string takes the first arm that equals it, else the `_` arm
MatchArm(table, s) ==
    IF \E i \in 1..Len(table) : table[i][1] = s
    THEN LET arm == CHOOSE i \in 1..Len(table) :
                        /\ table[i][1] = s
                        /\ \A j \in 1..(i - 1) : table[j][1] # s
         IN  ErrCode(table[arm][2], "")
    ELSE ErrCode("_Custom", s)

\* a slip of the table: the M_NOT_JSON arm yields BadJson
ErrCodeFrom_SharedArm(s) ==
    IF s = "M_NOT_JSON" THEN ErrCode("BadJson", "") ELSE MatchArm(ErrCodeTable, s)

\* impl From<T> for ErrCode
ErrCodeFrom(s) == MatchArm(ErrCodeTable, s)

(***************************************************************************)
(* enum Field and Field::new.                                              *)
(***************************************************************************)
FieldNew(s) ==
    CASE s = "errcode" -> "ErrCode"
      [] s = "soft_logout" -> "SoftLogout"
      [] s = "retry_after_ms" -> "RetryAfterMs"
      [] s = "room_version" -> "RoomVersion"
      [] s = "admin_contact" -> "AdminContact"
      [] OTHER -> "Other"

\* set_field!(@variant_containing $field)
VariantContaining(field) ==
    CASE field = "soft_logout" -> "UnknownToken"
      [] field = "retry_after_ms" -> "LimitExceeded"
      [] field = "room_version" -> "IncompatibleRoomVersion"
      [] field = "admin_contact" -> "ResourceLimitExceeded"

(***************************************************************************)
(* enum ErrorKind (the type the codec produces and consumes).              *)
(***************************************************************************)
ErrorKind(variant) ==
    [variant |-> variant, soft_logout |-> FALSE, retry_after_ms |-> None,
     room_version |-> "", admin_contact |-> "", errcode |-> "", extra |-> {}]

UnknownToken(b) == [ErrorKind("UnknownToken") EXCEPT !.soft_logout = b]

LimitExceeded(d) == [ErrorKind("LimitExceeded") EXCEPT !.retry_after_ms = d]

IncompatibleRoomVersion(v) ==
    [ErrorKind("IncompatibleRoomVersion") EXCEPT !.room_version = v]

ResourceLimitExceeded(c) ==
    [ErrorKind("ResourceLimitExceeded") EXCEPT !.admin_contact = c]

Custom(code, ex) == [ErrorKind("_Custom") EXCEPT !.errcode = code, !.extra = ex]

(***************************************************************************)
(* Result<ErrorKind, Error>.  err is the serde error constructor used,     *)
(* field the field name it is given ("" for a custom message).             *)
(***************************************************************************)
Ok(v) == [ok |-> TRUE, value |-> v, err |-> "", field |-> ""]

Err(e, f) == [ok |-> FALSE, value |-> ErrorKind(""), err |-> e, field |-> f]

(***************************************************************************)
(* from_json_value::<T> for the payload types.  Each returns               *)
(* [ok, v]: ok is FALSE when serde_json reports an error.                  *)
(***************************************************************************)
\* from_json_value::<bool>
BoolFromJson(v) == [ok |-> v.t = "bool", v |-> v.s = "true"]

\* from_json_value::<js_int::UInt>: u64::deserialize, then the range check
\* against MAX_SAFE_UINT; a negative or non-integer number is no u64
UIntFromJson(v) ==
    [ok |-> v.t = "posint" /\ BigLeq(v.n, MAX_SAFE_UINT), v |-> v.n]

\* from_json_value::<String>
StringFromJson(v) == [ok |-> v.t = "string", v |-> v.s]

\* from_json_value::<RoomVersionId>: the value must be a string (the
\* strings the model draws are valid room version ids)
RoomVersionIdFromJson(v) == [ok |-> v.t = "string", v |-> v.s]

(***************************************************************************)
(* ErrorKindVisitor::visit_map.  The accumulator is the record of the six  *)
(* local variables; a step returns the new accumulator and ret, the value  *)
(* of an early `return Err(..)` (None when the loop goes on).              *)
(***************************************************************************)
EmptyAcc ==
    [errcode |-> None, soft_logout |-> None, retry_after_ms |-> None,
     room_version |-> None, admin_contact |-> None, extra |-> {}]

Continue(acc) == [acc |-> acc, ret |-> None]

Return(acc, r) == [acc |-> acc, ret |-> Some(r)]

\* set_field!(@inner $field) for the four companion fields: the value is
\* kept as a serde_json::Value, so map.next_value() cannot fail
SetFieldInner(acc, field, v) ==
    IF IsSome(acc[field])
    THEN Return(acc, Err("duplicate_field", field))
    ELSE Continue([acc EXCEPT ![field] = Some(v)])

\* set_field!(errcode): @inner with the value deserialized as ErrCode
\* (ruma_serde::deserialize_cow_str, then From)
SetErrcode(acc, v) ==
    IF IsSome(acc.errcode)
    THEN Return(acc, Err("duplicate_field", "errcode"))
    ELSE IF v.t # "string"
         THEN Return(acc, Err("invalid_type", ""))
         ELSE Continue([acc EXCEPT !.errcode = Some(ErrCodeFrom(v.s))])

\* a slip of set_field!: the `| None` alternative is missing, so a companion
\* field seen before errcode is ignored
SetField_NoBuffer(acc, field, v) ==
    IF IsSome(acc.errcode) /\ Unwrap(acc.errcode).variant = VariantContaining(field)
    THEN SetFieldInner(acc, field, v)
    ELSE Continue(acc)

\* set_field!($field) that reports a field of another variant instead of
\* consuming it
SetField_RejectUnowned(acc, field, v) ==
    IF \/ acc.errcode = None
       \/ Unwrap(acc.errcode).variant = VariantContaining(field)
    THEN SetFieldInner(acc, field, v)
    ELSE Return(acc, Err("custom", field))

\* set_field!($field): store when errcode is the owning variant or not yet
\* known, else consume the value as IgnoredAny
SetField(acc, field, v) ==
    IF \/ acc.errcode = None
       \/ Unwrap(acc.errcode).variant = VariantContaining(field)
    THEN SetFieldInner(acc, field, v)
    ELSE Continue(acc)

\* the Field::Other arm: extra.entry(key), Vacant inserts, Occupied fails
SetOther(acc, key, v) ==
    IF \E e \in acc.extra : e[1] = key
    THEN Return(acc, Err("duplicate_field", key))
    ELSE Continue([acc EXCEPT !.extra = @ \cup {<<key, v>>}])

\* the body of `while let Some(key) = map.next_key()?`
VisitKey(acc, key, v) ==
    CASE FieldNew(key) = "ErrCode" -> SetErrcode(acc, v)
      [] FieldNew(key) = "Other" -> SetOther(acc, key, v)
      [] OTHER -> SetField(acc, key, v)

\* a slip of the final match: the soft_logout default is true
FinishUnknownToken_DefaultTrue(acc) ==
    IF acc.soft_logout = None
    THEN Ok(UnknownToken(TRUE))
    ELSE LET b == BoolFromJson(Unwrap(acc.soft_logout))
         IN  IF b.ok THEN Ok(UnknownToken(b.v)) ELSE Err("custom", "")

\* the ErrCode::UnknownToken arm: map(from_json_value).transpose()?
\* .unwrap_or_default()
FinishUnknownToken(acc) ==
    IF acc.soft_logout = None
    THEN Ok(UnknownToken(FALSE))
    ELSE LET b == BoolFromJson(Unwrap(acc.soft_logout))
         IN  IF b.ok THEN Ok(UnknownToken(b.v)) ELSE Err("custom", "")

\* a slip of the LimitExceeded arm: a value that is no UInt is read as absent
FinishLimitExceeded_Lenient(acc) ==
    IF acc.retry_after_ms = None
    THEN Ok(LimitExceeded(None))
    ELSE LET n == UIntFromJson(Unwrap(acc.retry_after_ms))
         IN  IF n.ok
             THEN Ok(LimitExceeded(Some(DurationFromMillis(n.v))))
             ELSE Ok(LimitExceeded(None))

\* the ErrCode::LimitExceeded arm: map(from_json_value::<UInt>).transpose()?
\* .map(Into::into).map(Duration::from_millis)
FinishLimitExceeded(acc) ==
    IF acc.retry_after_ms = None
    THEN Ok(LimitExceeded(None))
    ELSE LET n == UIntFromJson(Unwrap(acc.retry_after_ms))
         IN  IF n.ok
             THEN Ok(LimitExceeded(Some(DurationFromMillis(n.v))))
             ELSE Err("custom", "")

\* a slip of the IncompatibleRoomVersion arm: an absent room_version is
\* reported as a missing errcode
FinishIncompatibleRoomVersion_WrongField(acc) ==
    IF acc.room_version = None
    THEN Err("missing_field", "errcode")
    ELSE LET r == RoomVersionIdFromJson(Unwrap(acc.room_version))
         IN  IF r.ok THEN Ok(IncompatibleRoomVersion(r.v)) ELSE Err("custom", "")

\* the ErrCode::IncompatibleRoomVersion arm
FinishIncompatibleRoomVersion(acc) ==
    IF acc.room_version = None
    THEN Err("missing_field", "room_version")
    ELSE LET r == RoomVersionIdFromJson(Unwrap(acc.room_version))
         IN  IF r.ok THEN Ok(IncompatibleRoomVersion(r.v)) ELSE Err("custom", "")

\* the ErrCode::ResourceLimitExceeded arm
FinishResourceLimitExceeded(acc) ==
    IF acc.admin_contact = None
    THEN Err("missing_field", "admin_contact")
    ELSE LET c == StringFromJson(Unwrap(acc.admin_contact))
         IN  IF c.ok THEN Ok(ResourceLimitExceeded(c.v)) ELSE Err("custom", "")

\* a slip of the final match: unit variants keep the extra map
FinishMatch_KeepExtra(acc) ==
    LET c == Unwrap(acc.errcode)
    IN  CASE c.variant = "UnknownToken" -> FinishUnknownToken(acc)
          [] c.variant = "LimitExceeded" -> FinishLimitExceeded(acc)
          [] c.variant = "IncompatibleRoomVersion" -> FinishIncompatibleRoomVersion(acc)
          [] c.variant = "ResourceLimitExceeded" -> FinishResourceLimitExceeded(acc)
          [] c.variant = "_Custom" -> Ok(Custom(c.custom, acc.extra))
          [] OTHER -> Ok([ErrorKind(c.variant) EXCEPT !.extra = acc.extra])

\* `Ok(match errcode { .. })`: the final match of visit_map
FinishMatch(acc) ==
    LET c == Unwrap(acc.errcode)
    IN  CASE c.variant = "UnknownToken" -> FinishUnknownToken(acc)
          [] c.variant = "LimitExceeded" -> FinishLimitExceeded(acc)
          [] c.variant = "IncompatibleRoomVersion" -> FinishIncompatibleRoomVersion(acc)
          [] c.variant = "ResourceLimitExceeded" -> FinishResourceLimitExceeded(acc)
          [] c.variant = "_Custom" -> Ok(Custom(c.custom, acc.extra))
          [] OTHER -> Ok(ErrorKind(c.variant))

\* visit_map after the loop: errcode.ok_or_else(missing_field)?, then the match
Finish(acc) ==
    IF acc.errcode = None
    THEN Err("missing_field", "errcode")
    ELSE FinishMatch(acc)

\* visit_map on the entries a MapAccess yields, from accumulator acc
RECURSIVE VisitMapFrom(_, _)
VisitMapFrom(acc, entries) ==
    IF entries = <<>>
    THEN Finish(acc)
    ELSE LET r == VisitKey(acc, Head(entries)[1], Head(entries)[2])
         IN  IF IsSome(r.ret)
             THEN Unwrap(r.ret)
             ELSE VisitMapFrom(r.acc, Tail(entries))

\* impl Deserialize for ErrorKind: deserialize_map(ErrorKindVisitor)
Deserialize(entries) == VisitMapFrom(EmptyAcc, entries)

(***************************************************************************)
(* impl Serialize for ErrorKind.                                           *)
(***************************************************************************)
\* AsRef<str> for ErrorKind: the canonical wire string of a variant, the
\* raw errcode for _Custom
AsRefStr(k) ==
    IF k.variant = "_Custom"
    THEN k.errcode
    ELSE ErrCodeTable[CHOOSE i \in 1..Len(ErrCodeTable) :
                          ErrCodeTable[i][2] = k.variant][1]

\* Ord for String on the keys the model uses: their byte-wise order
KeyOrder ==
    <<"admin_contact", "errcode", "error", "retry_after_ms", "room_version",
      "soft_logout", "x">>

\* `for (k, v) in extra`: BTreeMap iterates in ascending key order
RECURSIVE BTreeIterFrom(_, _)
BTreeIterFrom(m, keys) ==
    IF keys = <<>>
    THEN <<>>
    ELSE LET here == {e \in m : e[1] = Head(keys)}
         IN  (IF here = {} THEN <<>> ELSE <<CHOOSE e \in here : TRUE>>)
             \o BTreeIterFrom(m, Tail(keys))

BTreeIter(m) == BTreeIterFrom(m, KeyOrder)

SerOk(entries) == [ok |-> TRUE, entries |-> entries]

SerErr == [ok |-> FALSE, entries |-> <<>>]

\* a slip of the UnknownToken arm: soft_logout is written whatever its value
SerializePayload_AlwaysSoftLogout(k) ==
    CASE k.variant = "UnknownToken" ->
            SerOk(<< <<"soft_logout", JBool(k.soft_logout)>> >>)
      [] k.variant = "LimitExceeded" /\ IsSome(k.retry_after_ms) ->
            LET ms == DurationAsMillis(Unwrap(k.retry_after_ms))
            IN  IF BigLeq(ms, MAX_SAFE_UINT)
                THEN SerOk(<< <<"retry_after_ms", JPosInt(ms)>> >>)
                ELSE SerErr
      [] k.variant = "IncompatibleRoomVersion" ->
            SerOk(<< <<"room_version", JStr(k.room_version)>> >>)
      [] k.variant = "ResourceLimitExceeded" ->
            SerOk(<< <<"admin_contact", JStr(k.admin_contact)>> >>)
      [] k.variant = "_Custom" -> SerOk(BTreeIter(k.extra))
      [] OTHER -> SerOk(<<>>)

\* a LimitExceeded arm without the range check of UInt::try_from
SerializePayload_Unchecked(k) ==
    CASE k.variant = "UnknownToken" /\ k.soft_logout ->
            SerOk(<< <<"soft_logout", JBool(TRUE)>> >>)
      [] k.variant = "LimitExceeded" /\ IsSome(k.retry_after_ms) ->
            SerOk(<< <<"retry_after_ms",
                       JPosInt(DurationAsMillis(Unwrap(k.retry_after_ms)))>> >>)
      [] k.variant = "IncompatibleRoomVersion" ->
            SerOk(<< <<"room_version", JStr(k.room_version)>> >>)
      [] k.variant = "ResourceLimitExceeded" ->
            SerOk(<< <<"admin_contact", JStr(k.admin_contact)>> >>)
      [] k.variant = "_Custom" -> SerOk(BTreeIter(k.extra))
      [] OTHER -> SerOk(<<>>)

\* the `match self` of serialize: the entries written after errcode;
\* UInt::try_from(duration.as_millis()) fails above MAX_SAFE_UINT
SerializePayload(k) ==
    CASE k.variant = "UnknownToken" /\ k.soft_logout ->
            SerOk(<< <<"soft_logout", JBool(TRUE)>> >>)
      [] k.variant = "LimitExceeded" /\ IsSome(k.retry_after_ms) ->
            LET ms == DurationAsMillis(Unwrap(k.retry_after_ms))
            IN  IF BigLeq(ms, MAX_SAFE_UINT)
                THEN SerOk(<< <<"retry_after_ms", JPosInt(ms)>> >>)
                ELSE SerErr
      [] k.variant = "IncompatibleRoomVersion" ->
            SerOk(<< <<"room_version", JStr(k.room_version)>> >>)
      [] k.variant = "ResourceLimitExceeded" ->
            SerOk(<< <<"admin_contact", JStr(k.admin_contact)>> >>)
      [] k.variant = "_Custom" -> SerOk(BTreeIter(k.extra))
      [] OTHER -> SerOk(<<>>)

\* serialize: serialize_map, the errcode entry, the payload entries, end
SerializeKind(k) ==
    LET p == SerializePayload(k)
    IN  IF p.ok
        THEN SerOk(<< <<"errcode", JStr(AsRefStr(k))>> >> \o p.entries)
        ELSE SerErr

(***************************************************************************)
(* KeyId<A, K> of signatures.rs.  A string is the sequence of its bytes.   *)
(***************************************************************************)
\* u8::MAX, the largest colon_idx a NonZeroU8 holds
U8Max == 255

\* s.find(':'): the number of bytes before the first colon
FindColon(s) ==
    IF \E i \in 1..Len(s) : s[i] = ":"
    THEN Some((CHOOSE i \in 1..Len(s) :
                  /\ s[i] = ":"
                  /\ \A j \in 1..(i - 1) : s[j] # ":") - 1)
    ELSE None

\* a KeyId value: full_id and colon_idx
KeyIdOk(full_id, colon_idx) ==
    [ok |-> TRUE, full_id |-> full_id, colon_idx |-> colon_idx, err |-> ""]

\* no KeyId: an Err(..) of try_from, or a panic of from_parts
KeyIdErr(e) == [ok |-> FALSE, full_id |-> <<>>, colon_idx |-> 0, err |-> e]

\* qualified_key_id::validate::<A, K>(s): the first colon splits s, the
\* algorithm before it is neither empty nor longer than 255 bytes, and
\* A::from_str and K::from_str accept the two parts (algOk, nameOk are
\* their verdicts on the parts of s).  Returns [ok, colon_idx, err].
Validate(s, algOk, nameOk) ==
    LET c == FindColon(s)
    IN  CASE c = None -> [ok |-> FALSE, colon_idx |-> 0, err |-> "MissingDelimiter"]
          [] c # None /\ Unwrap(c) = 0 ->
                [ok |-> FALSE, colon_idx |-> 0, err |-> "EmptyAlgorithm"]
          [] c # None /\ Unwrap(c) > U8Max ->
                [ok |-> FALSE, colon_idx |-> 0, err |-> "IdentifierTooLong"]
          [] c # None /\ Unwrap(c) \in 1..U8Max /\ ~algOk ->
                [ok |-> FALSE, colon_idx |-> 0, err |-> "InvalidAlgorithm"]
          [] c # None /\ Unwrap(c) \in 1..U8Max /\ algOk /\ ~nameOk ->
                [ok |-> FALSE, colon_idx |-> 0, err |-> "InvalidName"]
          [] OTHER -> [ok |-> TRUE, colon_idx |-> Unwrap(c), err |-> ""]

\* a try_from that stores the index of the byte after the colon
TryFromStr_AfterColon(s, algOk, nameOk) ==
    LET v == Validate(s, algOk, nameOk)
    IN  IF v.ok THEN KeyIdOk(s, v.colon_idx + 1) ELSE KeyIdErr(v.err)

\* fn try_from (FromStr::from_str, TryFrom<&str>, TryFrom<String>)
TryFromStr(s, algOk, nameOk) ==
    LET v == Validate(s, algOk, nameOk)
    IN  IF v.ok THEN KeyIdOk(s, v.colon_idx) ELSE KeyIdErr(v.err)

\* a from_parts that stores the byte length of the whole string in colon_idx
FromPartsOf_LenOfAll(algorithm, key_name) ==
    CASE Len(algorithm) > U8Max -> KeyIdErr("panic: no algorithm name len > 255")
      [] Len(algorithm) = 0 -> KeyIdErr("panic: no empty algorithm name")
      [] OTHER -> KeyIdOk(algorithm \o <<":">> \o key_name,
                          Len(algorithm) + 1 + Len(key_name))

\* KeyId::from_parts: the two expect() calls panic on an algorithm longer
\* than 255 bytes or empty
FromPartsOf(algorithm, key_name) ==
    CASE Len(algorithm) > U8Max -> KeyIdErr("panic: no algorithm name len > 255")
      [] Len(algorithm) = 0 -> KeyIdErr("panic: no empty algorithm name")
      [] OTHER -> KeyIdOk(algorithm \o <<":">> \o key_name, Len(algorithm))

\* a slip of key_name(): the slice starts at the colon
KeyNameOf_FromColon(k) == SubSeq(k.full_id, k.colon_idx + 1, Len(k.full_id))

\* KeyId::algorithm(): &self.full_id[..colon_idx]
AlgorithmOf(k) == SubSeq(k.full_id, 1, k.colon_idx)

\* KeyId::key_name(): &self.full_id[colon_idx + 1..]
KeyNameOf(k) == SubSeq(k.full_id, k.colon_idx + 2, Len(k.full_id))

\* A::from_str(slice).is_ok() for the KeyId of request r: A accepts the string
\* form of the A value handed to from_parts, and gave validate its verdict
\* algOk on the text before the first colon; no other slice was ever shown
\* to A
AlgFromStr(r, slice) ==
    IF r.op = "from_parts"
    THEN slice = r.algorithm
    ELSE /\ IsSome(FindColon(r.raw))
         /\ slice = SubSeq(r.raw, 1, Unwrap(FindColon(r.raw)))
         /\ r.algOk

\* K::from_str(slice).is_ok(), likewise, on the text after the first colon
NameFromStr(r, slice) ==
    IF r.op = "from_parts"
    THEN slice = r.key_name
    ELSE /\ IsSome(FindColon(r.raw))
         /\ slice = SubSeq(r.raw, Unwrap(FindColon(r.raw)) + 2, Len(r.raw))
         /\ r.nameOk

(***************************************************************************)
(* The inputs the model draws from.                                        *)
(***************************************************************************)
\* errcode strings: the four payload variants, a unit variant, an unknown one
ErrcodeInputs ==
    {"M_FORBIDDEN", "M_UNKNOWN_TOKEN", "M_LIMIT_EXCEEDED",
     "M_INCOMPATIBLE_ROOM_VERSION", "M_RESOURCE_LIMIT_EXCEEDED",
     "M_SOMETHING_NEW"}

\* strings close to a table string, and other strings outside the table
OffTableStrings ==
    {"M_SOMETHING_NEW", "m_forbidden", "M_Forbidden", "FORBIDDEN", "M_FORBIDDEN ",
     "M_", "", "M_UNKNOWN_TOKEN_", "M_LIMIT_EXCEEDED2", "forbidden"}

RetryAfterMsInputs ==
    {JPosInt(<<>>), JPosInt(<<1, 500>>), JPosInt(MAX_SAFE_UINT), JPosInt(TwoPow53),
     JNegInt(<<1>>), JFloat("1.5"), JStr("soon")}

\* the key/value entries an input object is built from
EntryPool ==
    {<<"errcode", JStr(s)>> : s \in ErrcodeInputs}
    \cup {<<"errcode", JPosInt(<<5>>)>>}
    \cup {<<"soft_logout", v>> : v \in {JBool(TRUE), JBool(FALSE), JStr("yes")}}
    \cup {<<"retry_after_ms", v>> : v \in RetryAfterMsInputs}
    \cup {<<"room_version", v>> : v \in {JStr("7"), JStr("1"), JPosInt(<<7>>)}}
    \cup {<<"admin_contact", v>> : v \in {JStr("mailto:a"), JPosInt(<<3>>)}}
    \cup {<<"error", JStr("oops")>>, <<"error", JNull>>, <<"x", JPosInt(<<1>>)>>}

\* the key sequences a MapAccess may yield (keys may repeat, in any order),
\* and every table and off-table errcode alone
DecodeInputs ==
    UNION {[1..n -> EntryPool] : n \in 0..MaxKeys}
    \cup {<< <<"errcode", JStr(s)>> >> : s \in TableStrings \cup OffTableStrings}

\* the payload variants of ErrorKind
PayloadVariants ==
    {"UnknownToken", "LimitExceeded", "IncompatibleRoomVersion",
     "ResourceLimitExceeded"}

\* Durations: zero, 1.5 s, half a millisecond, 1.5 ms, and the values around
\* MAX_SAFE_UINT milliseconds
DurationInputs ==
    {[secs |-> <<>>, nanos |-> 0],
     [secs |-> <<1>>, nanos |-> 500000000],
     [secs |-> <<>>, nanos |-> 500000],
     [secs |-> <<>>, nanos |-> 1500000],
     [secs |-> <<9, 7, 199, 254, 740>>, nanos |-> 991000000],
     [secs |-> <<9, 7, 199, 254, 740>>, nanos |-> 991999999],
     [secs |-> <<9, 7, 199, 254, 740>>, nanos |-> 992000000],
     [secs |-> <<18, 446, 744, 73, 709, 551, 615>>, nanos |-> 0]}

\* the entries an extra map of _Custom is built from
ExtraPool ==
    {<<"error", JStr("oops")>>, <<"error", JNull>>, <<"x", JPosInt(<<1>>)>>,
     <<"soft_logout", JBool(TRUE)>>, <<"retry_after_ms", JPosInt(<<5>>)>>,
     <<"errcode", JStr("M_OTHER")>>}

\* BTreeMap<String, JsonValue>: at most one value per key
IsMap(m) == \A e1, e2 \in m : e1[1] = e2[1] => e1 = e2

\* the ErrorKind values a caller can construct
ErrorKindInputs ==
    {ErrorKind(v) : v \in KnownVariants \ PayloadVariants}
    \cup {UnknownToken(b) : b \in BOOLEAN}
    \cup {LimitExceeded(None)}
    \cup {LimitExceeded(Some(d)) : d \in DurationInputs}
    \cup {IncompatibleRoomVersion(v) : v \in {"1", "7"}}
    \cup {ResourceLimitExceeded(c) : c \in {"", "mailto:a"}}
    \cup {Custom(c, m) : c \in {"M_SOMETHING_NEW", "M_FORBIDDEN", ""},
                         m \in {x \in SUBSET ExtraPool :
                                    IsMap(x) /\ Cardinality(x) <= MaxKeys}}

(***************************************************************************)
(* The state machine: Serialize writes the entries of a value, visit_map   *)
(* reads entries one key at a time.                                        *)
(***************************************************************************)
Acc ==
    [errcode |-> errcode, soft_logout |-> soft_logout,
     retry_after_ms |-> retry_after_ms, room_version |-> room_version,
     admin_contact |-> admin_contact, extra |-> extra]

SetAcc(a) ==
    /\ errcode' = a.errcode
    /\ soft_logout' = a.soft_logout
    /\ retry_after_ms' = a.retry_after_ms
    /\ room_version' = a.room_version
    /\ admin_contact' = a.admin_contact
    /\ extra' = a.extra

AccInit ==
    /\ errcode = None
    /\ soft_logout = None
    /\ retry_after_ms = None
    /\ room_version = None
    /\ admin_contact = None
    /\ extra = {}
    /\ result = None

KeyIdle == key_identifier = None /\ keyid = None /\ parts = None

SigIdle == signatures = {} /\ calls = <<>>

RespIdle ==
    /\ expr = <<>>
    /\ has_newtype_body = FALSE
    /\ fields = <<>>
    /\ response = None

CodecIdle ==
    /\ kind = None
    /\ ser = None
    /\ input = <<>>
    /\ map = <<>>
    /\ AccInit

\* a decode of an arbitrary input object
InitDecode ==
    /\ pc = "loop"
    /\ kind = None
    /\ ser = None
    /\ input \in DecodeInputs
    /\ map = input
    /\ AccInit
    /\ KeyIdle
    /\ SigIdle
    /\ RespIdle

\* an encode of a constructed value, followed by the decode of what it wrote
InitCodec ==
    /\ pc = "ser"
    /\ kind \in {Some(k) : k \in ErrorKindInputs}
    /\ ser = None
    /\ input = <<>>
    /\ map = <<>>
    /\ AccInit
    /\ KeyIdle
    /\ SigIdle
    /\ RespIdle

\* impl Serialize for ErrorKind, on the value in kind
Serialize ==
    /\ pc = "ser"
    /\ LET s == SerializeKind(Unwrap(kind))
       IN  /\ ser' = Some(s)
           /\ input' = s.entries
           /\ map' = s.entries
           /\ pc' = IF s.ok THEN "loop" ELSE "done"
    /\ UNCHANGED <<kind, errcode, soft_logout, retry_after_ms, room_version,
                   admin_contact, extra, result, keyVars, sigVars, respVars>>

\* one pass of the while loop on the key of kind f, with step result r
LoopStep(f, r) ==
    /\ pc = "loop"
    /\ map # <<>>
    /\ FieldNew(Head(map)[1]) = f
    /\ map' = Tail(map)
    /\ IF IsSome(r.ret)
       THEN /\ pc' = "done"
            /\ result' = r.ret
            /\ UNCHANGED <<errcode, soft_logout, retry_after_ms, room_version,
                           admin_contact, extra>>
       ELSE /\ pc' = "loop"
            /\ result' = result
            /\ SetAcc(r.acc)
    /\ UNCHANGED <<kind, ser, input, keyVars, sigVars, respVars>>

\* Field::ErrCode => set_field!(errcode)
VisitErrCode ==
    /\ map # <<>>
    /\ LoopStep("ErrCode", SetErrcode(Acc, Head(map)[2]))

\* Field::SoftLogout => set_field!(soft_logout)
VisitSoftLogout ==
    /\ map # <<>>
    /\ LoopStep("SoftLogout", SetField(Acc, "soft_logout", Head(map)[2]))

\* Field::RetryAfterMs => set_field!(retry_after_ms)
VisitRetryAfterMs ==
    /\ map # <<>>
    /\ LoopStep("RetryAfterMs", SetField(Acc, "retry_after_ms", Head(map)[2]))

\* Field::RoomVersion => set_field!(room_version)
VisitRoomVersion ==
    /\ map # <<>>
    /\ LoopStep("RoomVersion", SetField(Acc, "room_version", Head(map)[2]))

\* Field::AdminContact => set_field!(admin_contact)
VisitAdminContact ==
    /\ map # <<>>
    /\ LoopStep("AdminContact", SetField(Acc, "admin_contact", Head(map)[2]))

\* Field::Other(other) => match extra.entry(..)
VisitOther ==
    /\ map # <<>>
    /\ LoopStep("Other", SetOther(Acc, Head(map)[1], Head(map)[2]))

\* map.next_key() returns None: the code after the loop
EndOfMap ==
    /\ pc = "loop"
    /\ map = <<>>
    /\ pc' = "done"
    /\ result' = Some(Finish(Acc))
    /\ UNCHANGED <<kind, ser, input, map, errcode, soft_logout, retry_after_ms,
                   room_version, admin_contact, extra, keyVars, sigVars, respVars>>

NextDecode ==
    \/ VisitErrCode
    \/ VisitSoftLogout
    \/ VisitRetryAfterMs
    \/ VisitRoomVersion
    \/ VisitAdminContact
    \/ VisitOther
    \/ EndOfMap

NextCodec == Serialize \/ NextDecode

SpecDecode == InitDecode /\ [][NextDecode]_vars

SpecCodec == InitCodec /\ [][NextCodec]_vars

(***************************************************************************)
(* The KeyId state machine: a construction request, the construction, the  *)
(* two accessors.                                                          *)
(***************************************************************************)
\* n bytes "a"
Rep(n) == [i \in 1..n |-> "a"]

\* algorithm lengths around the bounds 1 and 255
AlgLens == {0, 1, 2, U8Max - 1, U8Max, U8Max + 1, U8Max + 2}

\* what follows the run of "a" in a raw string
Tails ==
    {<<>>, <<":">>, <<":", "1">>, <<":", "1", ":", "2">>, <<":", ":">>, <<"b">>,
     <<"b", ":", "1">>}

RawInputs ==
    {Rep(n) \o tail : n \in AlgLens, tail \in Tails}
    \cup {<<"e", "d", "2", "5", "5", "1", "9", ":", "1">>,
          <<"n", "o", "v", "a", "l", "u", "e">>}

NameInputs == {<<>>, <<"1">>, <<"1", ":", "2">>}

\* string forms of the algorithm handed to from_parts: the runs of "a", and
\* one that holds a colon
AlgInputs == {Rep(n) : n \in AlgLens} \cup {<<"a", ":", "b">>}

ParseRequest(raw, algOk, nameOk) ==
    [op |-> "try_from", raw |-> raw, algOk |-> algOk, nameOk |-> nameOk,
     algorithm |-> <<>>, key_name |-> <<>>]

PartsRequest(algorithm, key_name) ==
    [op |-> "from_parts", raw |-> <<>>, algOk |-> TRUE, nameOk |-> TRUE,
     algorithm |-> algorithm, key_name |-> key_name]

InitKeyId ==
    /\ pc = "key"
    /\ key_identifier \in
          {Some(ParseRequest(raw, a, n)) :
              raw \in RawInputs, a \in BOOLEAN, n \in BOOLEAN}
          \cup {Some(PartsRequest(alg, name)) : alg \in AlgInputs, name \in NameInputs}
    /\ keyid = None
    /\ parts = None
    /\ kind = None
    /\ ser = None
    /\ input = <<>>
    /\ map = <<>>
    /\ AccInit
    /\ SigIdle
    /\ RespIdle

\* from_str / try_from on the raw string of the request
TryFrom ==
    /\ pc = "key"
    /\ Unwrap(key_identifier).op = "try_from"
    /\ LET r == Unwrap(key_identifier)
       IN  keyid' = Some(TryFromStr(r.raw, r.algOk, r.nameOk))
    /\ pc' = "built"
    /\ UNCHANGED <<key_identifier, parts, codecVars, sigVars, respVars>>

\* KeyId::from_parts on the two parts of the request
FromParts ==
    /\ pc = "key"
    /\ Unwrap(key_identifier).op = "from_parts"
    /\ LET r == Unwrap(key_identifier)
       IN  keyid' = Some(FromPartsOf(r.algorithm, r.key_name))
    /\ pc' = "built"
    /\ UNCHANGED <<key_identifier, parts, codecVars, sigVars, respVars>>

\* algorithm() and key_name() on the KeyId that was built; reparsed is
\* FALSE when one of the two unwrap() calls panics
Accessors ==
    /\ pc = "built"
    /\ Unwrap(keyid).ok
    /\ LET r == Unwrap(key_identifier)
           a == AlgorithmOf(Unwrap(keyid))
           n == KeyNameOf(Unwrap(keyid))
       IN  parts' = Some([algorithm |-> a, key_name |-> n,
                          reparsed |-> AlgFromStr(r, a) /\ NameFromStr(r, n)])
    /\ pc' = "read"
    /\ UNCHANGED <<key_identifier, keyid, codecVars, sigVars, respVars>>

NextKeyId == TryFrom \/ FromParts \/ Accessors

SpecKeyId == InitKeyId /\ [][NextKeyId]_vars

(***************************************************************************)
(* The signature map: Signatures<E, K> = BTreeMap<E, EntitySignatures<K>>, *)
(* EntitySignatures<K> = BTreeMap<SigningKeyId<K>, String>.  A BTreeMap    *)
(* is the set of its <<key, value>> entries; its keys are compared with    *)
(* the Ord of the key type.                                                *)
(***************************************************************************)
\* the longest sequence of add_signature calls
MaxCalls == 3

\* PartialEq / Ord for KeyId: the comparison of as_str()
KeyIdEq(a, b) == a.full_id = b.full_id

\* BTreeMap<SigningKeyId<K>, String>::get
EntityGet(m, key) ==
    LET hit == {e \in m : KeyIdEq(e[1], key)}
    IN  IF hit = {} THEN None ELSE Some((CHOOSE e \in hit : TRUE)[2])

\* BTreeMap<SigningKeyId<K>, String>::insert: the value of an equal key is
\* replaced, the key that is stored stays
EntityInsert(m, key, value) ==
    IF \E e \in m : KeyIdEq(e[1], key)
    THEN {IF KeyIdEq(e[1], key) THEN <<e[1], value>> ELSE e : e \in m}
    ELSE m \cup {<<key, value>>}

\* Signatures::contains_key
ContainsKey(sigs, entity) == \E e \in sigs : e[1] = entity

\* add_signature without the contains_key test: the entity's map is always
\* replaced by a new one
AddSignatureOf_AlwaysNew(sigs, entity, key, value) ==
    {e \in sigs : e[1] # entity} \cup {<<entity, EntityInsert({}, key, value)>>}

\* add_signature
AddSignatureOf(sigs, entity, key, value) ==
    LET withEntity ==
            IF ~ContainsKey(sigs, entity) THEN sigs \cup {<<entity, {}>>} ELSE sigs
    IN  {IF e[1] = entity THEN <<e[1], EntityInsert(e[2], key, value)>> ELSE e :
            e \in withEntity}

\* signatures.get(entity).and_then(|m| m.get(key))
Lookup(sigs, entity, key) ==
    IF ContainsKey(sigs, entity)
    THEN EntityGet((CHOOSE e \in sigs : e[1] = entity)[2], key)
    ELSE None

Ed25519 == <<"e", "d", "2", "5", "5", "1", "9">>

Entities == {"example.org", "matrix.org"}

\* SigningKeyIds: built from parts and parsed, two of them with the same
\* algorithm and one whose key name holds a colon
SigKeyInputs ==
    {FromPartsOf(Ed25519, <<"1">>),
     TryFromStr(Ed25519 \o <<":", "1">>, TRUE, TRUE),
     TryFromStr(Ed25519 \o <<":", "2">>, TRUE, TRUE),
     FromPartsOf(Ed25519, <<"1", ":", "2">>)}

SigValues == {"sigA", "sigB"}

InitSig ==
    /\ pc = "sig"
    /\ CodecIdle
    /\ KeyIdle
    /\ SigIdle
    /\ RespIdle

\* one call of add_signature
AddSignature ==
    /\ pc = "sig"
    /\ Len(calls) < MaxCalls
    /\ \E entity \in Entities, key \in SigKeyInputs, value \in SigValues :
          /\ signatures' = AddSignatureOf(signatures, entity, key, value)
          /\ calls' = Append(calls, [entity |-> entity, key |-> key,
                                     value |-> value])
    /\ UNCHANGED <<pc, codecVars, keyVars, respVars>>

NextSig == AddSignature

SpecSig == InitSig /\ [][NextSig]_vars

(***************************************************************************)
(* Response of src/api/response.rs: From<ExprStruct> converts the fields   *)
(* of the struct in order, ToTokens writes the structs.  A field is the    *)
(* sequence of its attributes, an attribute is a Meta::List with an ident  *)
(* and nested items: the words "body", "header" and "query", a nested      *)
(* list or name/value pair ("list"), a literal ("literal").                *)
(***************************************************************************)
\* the longest field list of a response struct
MaxFields == 3

Attr(ident, nested) == [ident |-> ident, nested |-> nested]

BothBodyKindsPanic ==
    "ruma_api! responses cannot have both normal body fields and a newtype body field"

MustBeHeaderPanic == "ruma_api! attribute meta item on responses must be: header"

ListOrPairPanic ==
    "ruma_api! attribute meta item on responses cannot be a list or name/value pair"

\* the state of the closure while it reads the attributes of one field
FieldState(flag) ==
    [has_newtype_body |-> flag, field_kind |-> "Body", attrs |-> <<>>, panic |-> ""]

\* one pass of `for nested_meta_item in meta_list.nested`
NestedMetaItem(st, item) ==
    CASE item = "body" ->
            [st EXCEPT !.has_newtype_body = TRUE, !.field_kind = "NewtypeBody"]
      [] item = "header" -> [st EXCEPT !.field_kind = "Header"]
      [] item = "list" -> [st EXCEPT !.panic = ListOrPairPanic]
      [] item = "literal" -> [st EXCEPT !.panic = MustBeHeaderPanic]
      [] OTHER -> [st EXCEPT !.panic = MustBeHeaderPanic]

RECURSIVE NestedLoop(_, _)
NestedLoop(st, nested) ==
    IF nested = <<>> \/ st.panic # ""
    THEN st
    ELSE NestedLoop(NestedMetaItem(st, Head(nested)), Tail(nested))

\* the filter closure over the attributes of a field: an attribute that is
\* not ruma_api is kept, a ruma_api attribute is read and dropped
RECURSIVE FilterAttrs(_, _)
FilterAttrs(st, attrs) ==
    IF attrs = <<>> \/ st.panic # ""
    THEN st
    ELSE IF Head(attrs).ident # "ruma_api"
         THEN FilterAttrs([st EXCEPT !.attrs = Append(@, Head(attrs))], Tail(attrs))
         ELSE FilterAttrs(NestedLoop(st, Head(attrs).nested), Tail(attrs))

\* the map closure on one field: the attributes, then `match field_kind`
MapField(flag, field_value) ==
    LET st == FilterAttrs(FieldState(flag), field_value)
    IN  IF st.panic = "" /\ st.field_kind = "Body" /\ st.has_newtype_body
        THEN [st EXCEPT !.panic = BothBodyKindsPanic]
        ELSE st

ResponseField(field_kind, attrs) == [kind |-> field_kind, attrs |-> attrs]

ResponseOk(fs) == [ok |-> TRUE, fields |-> fs, panic |-> "", response_body |-> ""]

ResponsePanic(msg) ==
    [ok |-> FALSE, fields |-> <<>>, panic |-> msg, response_body |-> ""]

\* Response::newtype_body_field(): the first NewtypeBody field
NewtypeBodyField(fs) ==
    IF \E i \in 1..Len(fs) : fs[i].kind = "NewtypeBody"
    THEN Some(CHOOSE i \in 1..Len(fs) :
                 /\ fs[i].kind = "NewtypeBody"
                 /\ \A j \in 1..(i - 1) : fs[j].kind # "NewtypeBody")
    ELSE None

\* Response::has_body_fields()
HasBodyFields(fs) == \E i \in 1..Len(fs) : fs[i].kind = "Body"

\* the ResponseBody struct to_tokens writes: a tuple struct around the
\* newtype body field, else a struct of the Body fields, else none
ResponseBodyOf(fs) ==
    CASE IsSome(NewtypeBodyField(fs)) -> "newtype"
      [] NewtypeBodyField(fs) = None /\ HasBodyFields(fs) -> "struct"
      [] OTHER -> "none"

\* the fields a response struct is written with
FieldInputs ==
    {<<>>,
     <<Attr("serde", <<"rename">>)>>,
     <<Attr("ruma_api", <<"body">>)>>,
     <<Attr("ruma_api", <<"header">>)>>,
     <<Attr("serde", <<"rename">>), Attr("ruma_api", <<"body">>)>>,
     <<Attr("ruma_api", <<"body", "header">>)>>,
     <<Attr("ruma_api", <<"query">>)>>,
     <<Attr("ruma_api", <<"list">>)>>,
     <<Attr("ruma_api", <<"literal">>)>>}

InitResp ==
    /\ pc = "from"
    /\ expr \in UNION {[1..n -> FieldInputs] : n \in 0..MaxFields}
    /\ has_newtype_body = FALSE
    /\ fields = <<>>
    /\ response = None
    /\ CodecIdle
    /\ KeyIdle
    /\ SigIdle

\* the map closure on the next field of expr.fields
NextField ==
    /\ pc = "from"
    /\ Len(fields) < Len(expr)
    /\ LET st == MapField(has_newtype_body, expr[Len(fields) + 1])
       IN  /\ has_newtype_body' = st.has_newtype_body
           /\ IF st.panic # ""
              THEN /\ pc' = "panic"
                   /\ response' = Some(ResponsePanic(st.panic))
                   /\ fields' = fields
              ELSE /\ pc' = "from"
                   /\ response' = response
                   /\ fields' = Append(fields, ResponseField(st.field_kind, st.attrs))
    /\ UNCHANGED <<expr, codecVars, keyVars, sigVars>>

\* collect() after the last field: Response { fields }
Collect ==
    /\ pc = "from"
    /\ Len(fields) = Len(expr)
    /\ response' = Some(ResponseOk(fields))
    /\ pc' = "response"
    /\ UNCHANGED <<expr, has_newtype_body, fields, codecVars, keyVars, sigVars>>

\* impl ToTokens for Response
ToTokens ==
    /\ pc = "response"
    /\ response' = Some([Unwrap(response) EXCEPT
                            !.response_body = ResponseBodyOf(Unwrap(response).fields)])
    /\ pc' = "tokens"
    /\ UNCHANGED <<expr, has_newtype_body, fields, codecVars, keyVars, sigVars>>

NextResp == NextField \/ Collect \/ ToTokens

SpecResp == InitResp /\ [][NextResp]_vars

Init == InitDecode \/ InitCodec \/ InitKeyId \/ InitSig \/ InitResp

Next == NextCodec \/ NextKeyId \/ NextSig \/ NextResp

Spec == Init /\ [][Next]_vars

(***************************************************************************)
(* Vocabulary of the properties.                                           *)
(***************************************************************************)
Done == pc = "done" /\ IsSome(result)

Res == Unwrap(result)

Range(seq) == {seq[i] : i \in 1..Len(seq)}

KeysOf(seq) == {seq[i][1] : i \in 1..Len(seq)}

UniqueKeys(seq) == \A i, j \in 1..Len(seq) : seq[i][1] = seq[j][1] => i = j

\* the value of key k in an object with unique keys
ValueOf(seq, k) == (CHOOSE e \in Range(seq) : e[1] = k)[2]

\* the reorderings of a key sequence
Orders(seq) ==
    {[i \in 1..Len(seq) |-> seq[p[i]]] :
        p \in {q \in [1..Len(seq) -> 1..Len(seq)] :
                  \A i, j \in 1..Len(seq) : q[i] = q[j] => i = j}}

\* the entries of seq whose key satisfies Keep
Without(seq, k) == SelectSeq(seq, LAMBDA e : e[1] # k)

OnlyRecognized(seq) == SelectSeq(seq, LAMBDA e : FieldNew(e[1]) # "Other")

\* an object with unique keys whose errcode is the string s
HasErrcode(seq, s) == <<"errcode", JStr(s)>> \in Range(seq)

\* the position of key k in the key order of the extra map
KeyRank(k) == CHOOSE i \in 1..Len(KeyOrder) : KeyOrder[i] = k

(***************************************************************************)
(* C1.  Round trip of the codec.                                           *)
(***************************************************************************)
\* The values on which encode followed by decode is the identity: a present
\* retry_after_ms is a whole number of milliseconds no larger than 2^53 - 1,
\* a _Custom errcode is no table string, and the keys of a _Custom extra map
\* are unrecognized keys.
RoundTrips(k) ==
    /\ k.variant = "LimitExceeded" /\ IsSome(k.retry_after_ms) =>
          /\ Unwrap(k.retry_after_ms).nanos % NanosPerMilli = 0
          /\ BigLess(DurationAsMillis(Unwrap(k.retry_after_ms)), TwoPow53)
    /\ k.variant = "_Custom" =>
          /\ k.errcode \notin TableStrings
          /\ \A e \in k.extra : FieldNew(e[1]) = "Other"

\* C1 as stated: for every constructible ErrorKind value v, encoding v and
\* decoding the result succeeds and yields a value equal to v.
C1_RoundTripEveryValue ==
    pc = "done" /\ IsSome(kind) =>
        /\ Unwrap(ser).ok
        /\ result = Some(Ok(Unwrap(kind)))

\* C1 as amended: for every constructible ErrorKind value v in the domain
\* RoundTrips, encoding v and decoding the result succeeds and yields v.
C1_RoundTrip ==
    pc = "done" /\ IsSome(kind) /\ RoundTrips(Unwrap(kind)) =>
        /\ Unwrap(ser).ok
        /\ result = Some(Ok(Unwrap(kind)))

\* UnknownToken with soft_logout false was written without a soft_logout
\* entry and read back with the default.
C1_Witness ==
    /\ pc = "done"
    /\ kind = Some(UnknownToken(FALSE))
    /\ KeysOf(input) = {"errcode"}
    /\ result = Some(Ok(UnknownToken(FALSE)))

(***************************************************************************)
(* C2.  Unknown errcode: every other pair is kept and written back.        *)
(***************************************************************************)
\* C2 as stated: for every input object with unique keys whose errcode is
\* not in the table, decode yields _Custom with that errcode and an extra
\* map holding every other pair of the object, and encoding that value
\* reproduces exactly the original set of pairs.
C2_CustomKeepsEveryPair ==
    \A s \in OffTableStrings :
        Done /\ UniqueKeys(input) /\ HasErrcode(input, s) =>
            /\ Res = Ok(Custom(s, Range(Without(input, "errcode"))))
            /\ SerializeKind(Res.value).ok
            /\ Range(SerializeKind(Res.value).entries) = Range(input)

(***************************************************************************)
(* C3.  Duplicate keys.                                                    *)
(***************************************************************************)
\* C3 as stated, on inputs whose errcode values are all strings (so that no
\* other error can end the loop first): decoding a key sequence in which
\* the same key occurs twice fails with a duplicate-field error.
C3_DuplicateKeyFails ==
    (/\ Done
     /\ ~UniqueKeys(input)
     /\ \A e \in Range(input) : e[1] = "errcode" => e[2].t = "string")
        => ~Res.ok /\ Res.err = "duplicate_field"

(***************************************************************************)
(* C4.  The order of the keys does not matter.                             *)
(***************************************************************************)
\* C4: for every input object with unique keys, the outcome of decode (the
\* value, or the error and the field it names) is the same for every order
\* in which the keys are presented.
C4_OrderIndependent ==
    Done /\ UniqueKeys(input) =>
        \A other \in Orders(input) : Deserialize(other) = Res

\* soft_logout arrived before its owner M_UNKNOWN_TOKEN and was kept.
C4_Witness ==
    /\ Done
    /\ input = << <<"soft_logout", JBool(TRUE)>>,
                  <<"errcode", JStr("M_UNKNOWN_TOKEN")>> >>
    /\ Res = Ok(UnknownToken(TRUE))

(***************************************************************************)
(* C5.  Unrecognized keys next to a known errcode are dropped.             *)
(***************************************************************************)
\* C5: for every known discriminant, the unrecognized keys of an input
\* object with unique keys do not change the decode result: it is the
\* result of decoding the object without them, and carries no extra map.
C5_UnrecognizedKeysDropped ==
    \A s \in TableStrings :
        Done /\ UniqueKeys(input) /\ HasErrcode(input, s) =>
            /\ Res = Deserialize(OnlyRecognized(input))
            /\ Res.value.extra = {}

\* M_FORBIDDEN with an "error" key decoded to exactly Forbidden.
C5_Witness ==
    /\ Done
    /\ input = << <<"errcode", JStr("M_FORBIDDEN")>>, <<"error", JStr("oops")>> >>
    /\ Res = Ok(ErrorKind("Forbidden"))

(***************************************************************************)
(* C6.  Missing required fields.                                           *)
(***************************************************************************)
\* C6 as stated: for input objects with unique keys, decode fails with a
\* missing-field error naming errcode when no errcode key is present,
\* room_version when errcode is M_INCOMPATIBLE_ROOM_VERSION and room_version
\* is absent, admin_contact when errcode is M_RESOURCE_LIMIT_EXCEEDED and
\* admin_contact is absent; when the required companion is present (before
\* or after errcode) decode yields the variant carrying that value.
C6_PresentCompanionIsCarried ==
    Done /\ UniqueKeys(input) =>
        /\ "errcode" \notin KeysOf(input) => Res = Err("missing_field", "errcode")
        /\ HasErrcode(input, "M_INCOMPATIBLE_ROOM_VERSION") =>
              IF "room_version" \notin KeysOf(input)
              THEN Res = Err("missing_field", "room_version")
              ELSE /\ Res.ok
                   /\ Res.value.variant = "IncompatibleRoomVersion"
                   /\ JStr(Res.value.room_version) = ValueOf(input, "room_version")
        /\ HasErrcode(input, "M_RESOURCE_LIMIT_EXCEEDED") =>
              IF "admin_contact" \notin KeysOf(input)
              THEN Res = Err("missing_field", "admin_contact")
              ELSE /\ Res.ok
                   /\ Res.value.variant = "ResourceLimitExceeded"
                   /\ JStr(Res.value.admin_contact) = ValueOf(input, "admin_contact")

\* C6 as amended: the missing-field errors as stated; when the required
\* companion is present (before or after errcode) and its value is of the
\* payload's type (a string holding a room version id for room_version, a
\* string for admin_contact), decode yields the variant carrying that value, and when
\* it is present with any other value decode fails with a parse error.
C6_MissingField ==
    Done /\ UniqueKeys(input) =>
        /\ "errcode" \notin KeysOf(input) => Res = Err("missing_field", "errcode")
        /\ HasErrcode(input, "M_INCOMPATIBLE_ROOM_VERSION") =>
              IF "room_version" \notin KeysOf(input)
              THEN Res = Err("missing_field", "room_version")
              ELSE LET v == ValueOf(input, "room_version")
                   IN  IF v.t = "string"
                       THEN Res = Ok(IncompatibleRoomVersion(v.s))
                       ELSE Res = Err("custom", "")
        /\ HasErrcode(input, "M_RESOURCE_LIMIT_EXCEEDED") =>
              IF "admin_contact" \notin KeysOf(input)
              THEN Res = Err("missing_field", "admin_contact")
              ELSE LET v == ValueOf(input, "admin_contact")
                   IN  IF v.t = "string"
                       THEN Res = Ok(ResourceLimitExceeded(v.s))
                       ELSE Res = Err("custom", "")

\* room_version "7" arrived before M_INCOMPATIBLE_ROOM_VERSION and was kept.
C6_Witness ==
    /\ Done
    /\ input = << <<"room_version", JStr("7")>>,
                  <<"errcode", JStr("M_INCOMPATIBLE_ROOM_VERSION")>> >>
    /\ Res = Ok(IncompatibleRoomVersion("7"))

(***************************************************************************)
(* C7.  retry_after_ms of M_LIMIT_EXCEEDED.                                *)
(***************************************************************************)
\* d is a duration of exactly n milliseconds
IsMillis(d, n) == DurationAsMillis(d) = n /\ d.nanos % NanosPerMilli = 0

\* C7: decoding an object (unique keys) whose errcode is M_LIMIT_EXCEEDED
\* yields LimitExceeded with None when retry_after_ms is absent, with a
\* duration of n milliseconds when the value is an integer 0 <= n < 2^53,
\* and fails with a parse error for every other value, wherever
\* retry_after_ms stands relative to errcode.
C7_RetryAfterMs ==
    Done /\ UniqueKeys(input) /\ HasErrcode(input, "M_LIMIT_EXCEEDED") =>
        IF "retry_after_ms" \notin KeysOf(input)
        THEN Res = Ok(LimitExceeded(None))
        ELSE LET v == ValueOf(input, "retry_after_ms")
             IN  IF v.t = "posint" /\ BigLess(v.n, TwoPow53)
                 THEN /\ Res.ok
                      /\ Res.value.variant = "LimitExceeded"
                      /\ IsSome(Res.value.retry_after_ms)
                      /\ IsMillis(Unwrap(Res.value.retry_after_ms), v.n)
                 ELSE Res = Err("custom", "")

\* retry_after_ms = 2^53 - 1 arrived before errcode and was read.
C7_Witness ==
    /\ Done
    /\ input = << <<"retry_after_ms", JPosInt(MAX_SAFE_UINT)>>,
                  <<"errcode", JStr("M_LIMIT_EXCEEDED")>> >>
    /\ Res.ok
    /\ Res.value.retry_after_ms =
          Some([secs |-> <<9, 7, 199, 254, 740>>, nanos |-> 991000000])

(***************************************************************************)
(* C8.  The entries Serialize writes.                                      *)
(***************************************************************************)
\* the entries after errcode that the wire format gives value k
PayloadEntriesOk(k, rest) ==
    CASE k.variant = "UnknownToken" /\ k.soft_logout ->
            rest = << <<"soft_logout", JBool(TRUE)>> >>
      [] k.variant = "LimitExceeded" /\ IsSome(k.retry_after_ms) ->
            /\ Len(rest) = 1
            /\ rest[1][1] = "retry_after_ms"
            /\ rest[1][2].t = "posint"
      [] k.variant = "IncompatibleRoomVersion" ->
            rest = << <<"room_version", JStr(k.room_version)>> >>
      [] k.variant = "ResourceLimitExceeded" ->
            rest = << <<"admin_contact", JStr(k.admin_contact)>> >>
      [] k.variant = "_Custom" ->
            /\ Range(rest) = k.extra
            /\ Len(rest) = Cardinality(k.extra)
            /\ \A i, j \in 1..Len(rest) :
                  i < j => KeyRank(rest[i][1]) < KeyRank(rest[j][1])
      [] OTHER -> rest = <<>>

\* C8: for every ErrorKind value, the first entry of the encoded object is
\* errcode with the variant's table string (the raw string for _Custom), and
\* the remaining entries are exactly soft_logout = true iff UnknownToken
\* with soft_logout true, retry_after_ms iff LimitExceeded with a present
\* duration, room_version iff IncompatibleRoomVersion, admin_contact iff
\* ResourceLimitExceeded, the extra map's entries in map order iff _Custom,
\* and nothing for any other variant.
C8_EncodedEntries ==
    IsSome(ser) /\ Unwrap(ser).ok =>
        LET k == Unwrap(kind)
            e == Unwrap(ser).entries
        IN  /\ Len(e) >= 1
            /\ e[1][1] = "errcode"
            /\ e[1][2].t = "string"
            /\ IF k.variant = "_Custom"
               THEN e[1][2].s = k.errcode
               ELSE /\ e[1][2].s \in TableStrings
                    /\ ErrCodeFrom(e[1][2].s).variant = k.variant
            /\ PayloadEntriesOk(k, Tail(e))

\* UnknownToken with soft_logout true was written as errcode, soft_logout.
C8_Witness ==
    /\ kind = Some(UnknownToken(TRUE))
    /\ IsSome(ser)
    /\ Unwrap(ser).entries = << <<"errcode", JStr("M_UNKNOWN_TOKEN")>>,
                                <<"soft_logout", JBool(TRUE)>> >>

(***************************************************************************)
(* C9.  The discriminant table.                                            *)
(***************************************************************************)
\* the errcode string the decoder has read (errcode is set from the first
\* errcode entry)
ErrcodeRead ==
    LET i == CHOOSE i \in 1..Len(input) :
                 /\ input[i][1] = "errcode"
                 /\ \A j \in 1..(i - 1) : input[j][1] # "errcode"
    IN  input[i][2].s

\* C9: the table maps each of its strings to a known variant of its own (no
\* two strings share a variant, none maps to _Custom), matching is exact
\* and case-sensitive, and every string outside the table maps to _Custom
\* with that string unchanged; an unrecognized errcode is accepted.
C9_DiscriminantTable ==
    /\ IsSome(errcode) /\ kind = None =>
          IF ErrcodeRead \in TableStrings
          THEN /\ Unwrap(errcode).variant \in KnownVariants
               /\ Unwrap(errcode).custom = ""
          ELSE errcode = Some(ErrCode("_Custom", ErrcodeRead))
    /\ Done /\ kind = None /\ Len(input) = 1 /\ IsSome(errcode) =>
          /\ ErrcodeRead \in TableStrings =>
                \A s \in TableStrings :
                    ErrCodeFrom(s) = Unwrap(errcode) => s = ErrcodeRead
          /\ ErrcodeRead \notin TableStrings =>
                Res = Ok(Custom(ErrcodeRead, {}))

\* "m_forbidden" was read as an errcode of its own, not as M_FORBIDDEN.
C9_Witness ==
    /\ Done
    /\ input = << <<"errcode", JStr("m_forbidden")>> >>
    /\ errcode = Some(ErrCode("_Custom", "m_forbidden"))
    /\ Res = Ok(Custom("m_forbidden", {}))

(***************************************************************************)
(* C10.  Parsing a KeyId.                                                  *)
(***************************************************************************)
\* c bytes of s come before its first colon
FirstColonAt(s, c) ==
    /\ c + 1 \in 1..Len(s)
    /\ s[c + 1] = ":"
    /\ \A j \in 1..c : s[j] # ":"

\* C10: parsing a raw string splits on the first colon: it fails when the
\* string has no colon, fails when the algorithm before the first colon is
\* empty or longer than 255 bytes, succeeds when the algorithm is 1 to 255
\* bytes long and both components validate, and on success stores the raw
\* string unchanged with colon_idx the index of the first colon, so that
\* algorithm() is the text before the first colon and key_name() all the
\* text after it.
C10_KeyIdParse ==
    pc \in {"built", "read"} /\ Unwrap(key_identifier).op = "try_from" =>
        LET r == Unwrap(key_identifier)
            k == Unwrap(keyid)
        IN  /\ (\A i \in 1..Len(r.raw) : r.raw[i] # ":") => ~k.ok
            /\ \A c \in {0} \cup (U8Max + 1)..Len(r.raw) :
                  FirstColonAt(r.raw, c) => ~k.ok
            /\ \A c \in 1..U8Max :
                  FirstColonAt(r.raw, c) /\ r.algOk /\ r.nameOk =>
                      k.ok /\ k.colon_idx = c
            /\ k.ok => k.full_id = r.raw /\ FirstColonAt(r.raw, k.colon_idx)
            /\ pc = "read" =>
                  /\ Unwrap(parts).algorithm \o <<":">> \o Unwrap(parts).key_name = r.raw
                  /\ \A i \in 1..Len(Unwrap(parts).algorithm) :
                        Unwrap(parts).algorithm[i] # ":"
            /\ (r.raw = <<"e", "d", "2", "5", "5", "1", "9", ":", "1">> /\ pc = "read") =>
                  /\ Unwrap(parts).algorithm = <<"e", "d", "2", "5", "5", "1", "9">>
                  /\ Unwrap(parts).key_name = <<"1">>

\* a raw string with a 255-byte algorithm and a second colon in its name
\* was parsed and split at the first colon.
C10_Witness ==
    /\ pc = "read"
    /\ Unwrap(key_identifier).op = "try_from"
    /\ Unwrap(keyid).colon_idx = U8Max
    /\ Unwrap(parts).algorithm = Rep(U8Max)
    /\ Unwrap(parts).key_name = <<"1", ":", "2">>

(***************************************************************************)
(* C11.  The signature map is last-write-wins per (entity, key id).        *)
(***************************************************************************)
\* the calls that wrote the pair (entity, key)
WritesOf(entity, key) ==
    {i \in 1..Len(calls) :
        calls[i].entity = entity /\ calls[i].key.full_id = key.full_id}

Latest(S) == CHOOSE i \in S : \A j \in S : j <= i

\* C11: after any sequence of add_signature calls, looking up a pair
\* (entity, key id) returns the value of the most recent call for that pair
\* and nothing for a pair that was never added; the map holds at most one
\* value per pair, where two key ids are the same exactly when their full
\* strings are equal; a call leaves the value of every other pair unchanged.
C11_LastWriteWins ==
    pc = "sig" =>
        /\ \A entity \in Entities, key \in SigKeyInputs :
              Lookup(signatures, entity, key) =
                  IF WritesOf(entity, key) = {}
                  THEN None
                  ELSE Some(calls[Latest(WritesOf(entity, key))].value)
        /\ \A e1, e2 \in signatures : e1[1] = e2[1] => e1 = e2
        /\ \A e \in signatures :
              \A x, y \in e[2] : x[1].full_id = y[1].full_id => x = y

\* a pair written twice with different values, next to another pair of the
\* same entity
C11_Witness ==
    /\ pc = "sig"
    /\ Len(calls) = 3
    /\ calls[1].entity = calls[2].entity
    /\ calls[1].entity = calls[3].entity
    /\ calls[1].key.full_id # calls[2].key.full_id
    /\ calls[1].key.full_id = calls[3].key.full_id
    /\ calls[1].value # calls[3].value
    /\ Lookup(signatures, calls[1].entity, calls[1].key) = Some(calls[3].value)
    /\ Lookup(signatures, calls[2].entity, calls[2].key) = Some(calls[2].value)

(***************************************************************************)
(* C12.  Companion fields of other variants are inert.                     *)
(***************************************************************************)
CompanionKeys == {"soft_logout", "retry_after_ms", "room_version", "admin_contact"}

\* the companion keys of the input that the variant of errcode string d does
\* not own
UnownedIn(seq, d) ==
    {k \in CompanionKeys \cap KeysOf(seq) :
        VariantContaining(k) # ErrCodeFrom(d).variant}

\* C12: for an input object with unique keys whose errcode is a string of
\* the table, a companion field that the errcode's variant does not own
\* never makes decode fail and is not stored, whatever its value and whether
\* it comes before or after errcode: the result is the result of decoding
\* the input with that field removed, and an Ok result holds no value for it.
C12_UnownedCompanionInert ==
    Done /\ kind = None /\ UniqueKeys(input) =>
        \A d \in TableStrings :
            HasErrcode(input, d) =>
                \A k \in UnownedIn(input, d) :
                    /\ Res = Deserialize(Without(input, k))
                    /\ Res.ok => Res.value[k] = ErrorKind("")[k]
                    /\ ~Res.ok => Res.field # k

\* a malformed companion of another variant before errcode, and one after it
C12_Witness ==
    /\ Done
    /\ kind = None
    /\ Len(input) = 3
    /\ input[1] = <<"retry_after_ms", JStr("soon")>>
    /\ input[2] = <<"errcode", JStr("M_FORBIDDEN")>>
    /\ input[3] = <<"soft_logout", JStr("yes")>>
    /\ Res = Ok(ErrorKind("Forbidden"))

(***************************************************************************)
(* C13.  The range of an encoded retry_after_ms.                           *)
(***************************************************************************)
\* n is the number of whole milliseconds of duration d: d lies in the
\* millisecond that starts n milliseconds after zero
WholeMillis(d, n) ==
    LET start == DurationFromMillis(n)
    IN  /\ d.secs = start.secs
        /\ start.nanos <= d.nanos
        /\ d.nanos < start.nanos + NanosPerMilli

\* duration d is 2^53 milliseconds or longer
AtLeastTwoPow53Millis(d) ==
    LET bound == DurationFromMillis(TwoPow53)
    IN  \/ BigLess(bound.secs, d.secs)
        \/ d.secs = bound.secs /\ d.nanos >= bound.nanos

\* C13: encoding LimitExceeded with a present duration writes retry_after_ms
\* as the duration's number of whole milliseconds when that number is at
\* most 2^53 - 1, and fails, writing no object, when it is larger; the
\* number written is never a truncated or wrapped one.
C13_RetryAfterMsRange ==
    /\ IsSome(ser)
    /\ IsSome(kind)
    /\ Unwrap(kind).variant = "LimitExceeded"
    /\ IsSome(Unwrap(kind).retry_after_ms)
    => LET d == Unwrap(Unwrap(kind).retry_after_ms)
           s == Unwrap(ser)
       IN  IF AtLeastTwoPow53Millis(d)
           THEN s = SerErr
           ELSE /\ s.ok
                /\ Len(s.entries) = 2
                /\ s.entries[2][1] = "retry_after_ms"
                /\ s.entries[2][2].t = "posint"
                /\ BigLeq(s.entries[2][2].n, MAX_SAFE_UINT)
                /\ WholeMillis(d, s.entries[2][2].n)

\* a duration of exactly 2^53 milliseconds was refused
C13_Witness ==
    /\ pc = "done"
    /\ kind = Some(LimitExceeded(Some(
                  [secs |-> <<9, 7, 199, 254, 740>>, nanos |-> 992000000])))
    /\ ser = Some(SerErr)
    /\ result = None

(***************************************************************************)
(* C14.  The invariant of a KeyId.                                         *)
(***************************************************************************)
\* C14: every KeyId that was built, by from_parts or by parsing, has
\* 1 <= colon_idx <= 255, colon_idx < length of full_id and a colon at byte
\* colon_idx of full_id, so that algorithm() and key_name() slice within
\* full_id and their reparse succeeds; from_parts panics on an algorithm
\* that is empty or longer than 255 bytes, and otherwise builds
\* full_id = algorithm + ":" + key_name with colon_idx the byte length of
\* algorithm.
C14_KeyIdInvariant ==
    pc \in {"built", "read"} =>
        LET r == Unwrap(key_identifier)
            k == Unwrap(keyid)
        IN  /\ k.ok =>
                  /\ 1 <= k.colon_idx
                  /\ k.colon_idx <= U8Max
                  /\ k.colon_idx < Len(k.full_id)
                  /\ k.full_id[k.colon_idx + 1] = ":"
            /\ pc = "read" =>
                  /\ Unwrap(parts).reparsed
                  /\ Len(Unwrap(parts).algorithm) = k.colon_idx
                  /\ Len(Unwrap(parts).key_name) = Len(k.full_id) - k.colon_idx - 1
                  /\ Unwrap(parts).algorithm \o <<":">> \o Unwrap(parts).key_name
                        = k.full_id
            /\ r.op = "from_parts" =>
                  IF Len(r.algorithm) = 0 \/ Len(r.algorithm) > U8Max
                  THEN ~k.ok /\ k.err \in {"panic: no empty algorithm name",
                                           "panic: no algorithm name len > 255"}
                  ELSE /\ k.ok
                       /\ k.full_id = r.algorithm \o <<":">> \o r.key_name
                       /\ k.colon_idx = Len(r.algorithm)

\* from_parts with a 255-byte algorithm and a name holding a colon built a
\* KeyId whose two parts were read back
C14_Witness ==
    /\ pc = "read"
    /\ Unwrap(key_identifier).op = "from_parts"
    /\ Unwrap(keyid).colon_idx = U8Max
    /\ Unwrap(parts).reparsed
    /\ Unwrap(parts).algorithm = Rep(U8Max)
    /\ Unwrap(parts).key_name = <<"1", ":", "2">>

(***************************************************************************)
(* C15.  Equal KeyIds and their parts.                                     *)
(***************************************************************************)
ColonFree(str) == \A i \in 1..Len(str) : str[i] # ":"

\* the from_parts arguments whose concatenation is the string full
SplitsOf(full) ==
    {[algorithm |-> SubSeq(full, 1, i - 1),
      key_name |-> SubSeq(full, i + 1, Len(full))] :
        i \in {j \in 1..Len(full) : full[j] = ":"}}

\* the KeyIds with the string full: the parsed one, and those from_parts
\* builds from an algorithm that satisfies Allowed
BuildsOf(full, Allowed(_)) ==
    {b \in {TryFromStr(full, TRUE, TRUE)}
           \cup {FromPartsOf(p.algorithm, p.key_name) :
                    p \in {q \in SplitsOf(full) : Allowed(q.algorithm)}} :
        b.ok}

SameParts(k1, k2) ==
    /\ k1.colon_idx = k2.colon_idx
    /\ AlgorithmOf(k1) = AlgorithmOf(k2)
    /\ KeyNameOf(k1) = KeyNameOf(k2)

AnyString(str) == TRUE

\* C15 as stated: two KeyIds that compare equal, however each was built,
\* have the same colon_idx and so the same algorithm and key-name
\* substrings; from_parts(a, n) and the parse of a + ":" + n are equal and
\* agree on both.
C15_EqualKeyIdsAgree ==
    pc \in {"built", "read"} /\ Unwrap(keyid).ok =>
        LET r == Unwrap(key_identifier)
            k == Unwrap(keyid)
        IN  /\ \A b \in BuildsOf(k.full_id, AnyString) :
                  KeyIdEq(k, b) => SameParts(k, b)
            /\ r.op = "from_parts" =>
                  LET parsed == TryFromStr(r.algorithm \o <<":">> \o r.key_name,
                                           TRUE, TRUE)
                  IN  parsed.ok /\ KeyIdEq(k, parsed) /\ SameParts(k, parsed)

\* C15 as amended: two KeyIds that compare equal have the same colon_idx
\* and the same algorithm and key-name substrings when each was parsed or
\* was built by from_parts from an algorithm whose string form holds no
\* colon; for such an algorithm a, from_parts(a, n) and the parse of
\* a + ":" + n are equal and agree on both.
C15_EqualColonFreeAgree ==
    /\ pc \in {"built", "read"}
    /\ Unwrap(keyid).ok
    /\ Unwrap(key_identifier).op = "from_parts"
          => ColonFree(Unwrap(key_identifier).algorithm)
    => LET r == Unwrap(key_identifier)
           k == Unwrap(keyid)
       IN  /\ \A b \in BuildsOf(k.full_id, ColonFree) :
                 KeyIdEq(k, b) => SameParts(k, b)
           /\ r.op = "from_parts" =>
                 LET parsed == TryFromStr(r.algorithm \o <<":">> \o r.key_name,
                                          TRUE, TRUE)
                 IN  parsed.ok /\ KeyIdEq(k, parsed) /\ SameParts(k, parsed)

\* from_parts built "aa:1:2", the string whose parse splits at the same
\* colon, and both parts were read
C15_Witness ==
    /\ pc = "read"
    /\ Unwrap(key_identifier).op = "from_parts"
    /\ Unwrap(key_identifier).algorithm = Rep(2)
    /\ Unwrap(key_identifier).key_name = <<"1", ":", "2">>
    /\ Unwrap(keyid) = TryFromStr(Rep(2) \o <<":", "1", ":", "2">>, TRUE, TRUE)
    /\ Unwrap(parts).algorithm = Rep(2)
    /\ Unwrap(parts).key_name = <<"1", ":", "2">>

(***************************************************************************)
(* C16.  A response has normal body fields or a newtype body field.        *)
(***************************************************************************)
\* a field without a ruma_api attribute: a normal body field
IsPlainBody(field_value) ==
    \A i \in 1..Len(field_value) : field_value[i].ident # "ruma_api"

\* a field marked #[ruma_api(body)]
IsMarkedBody(field_value) ==
    \E i \in 1..Len(field_value) :
        /\ field_value[i].ident = "ruma_api"
        /\ field_value[i].nested = <<"body">>

\* a field list whose fields are normal body fields, #[ruma_api(body)]
\* fields and #[ruma_api(header)] fields
PlainBodyHeader(fs) ==
    \A i \in 1..Len(fs) :
        \A j \in 1..Len(fs[i]) :
            fs[i][j].ident = "ruma_api" => fs[i][j].nested \in {<<"body">>, <<"header">>}

\* C16: building a Response from a field list panics with "responses cannot
\* have both normal body fields and a newtype body field" for every field
\* list that holds a normal body field and a field marked
\* #[ruma_api(body)], in whatever order they are declared; a Response that
\* was built never holds both a Body field and a NewtypeBody field.
C16_BothBodyKindsAbort ==
    IsSome(response) /\ PlainBodyHeader(expr) =>
        /\ (/\ \E i \in 1..Len(expr) : IsPlainBody(expr[i])
            /\ \E i \in 1..Len(expr) : IsMarkedBody(expr[i]))
           => Unwrap(response) = ResponsePanic(BothBodyKindsPanic)
        /\ Unwrap(response).ok =>
              ~(/\ \E i \in 1..Len(Unwrap(response).fields) :
                      Unwrap(response).fields[i].kind = "Body"
                /\ \E i \in 1..Len(Unwrap(response).fields) :
                      Unwrap(response).fields[i].kind = "NewtypeBody")

====
